---- MODULE Spec2Model ----
(***************************************************************************)
(* Model of the taskmanager domain: the Task entity (models/task.py) and   *)
(* the TaskService with its in-memory store and counters                   *)
(* (services/task_service.py).                                             *)
(*                                                                         *)
(* Conventions                                                             *)
(*   - Optional[X] is a sequence: <<>> is None, <<x>> is the value x.      *)
(*   - A str is a sequence of one-character strings, so that strip() and   *)
(*     lower() are computed character by character.  A title is modelled   *)
(*     by its length, the only thing its constraints read.                 *)
(*   - datetime values are integers; `now` is the UTC clock.               *)
(*   - estimated_hours is an integer number of hours.                      *)
(*   - `last` records the most recent call: the operation and how it ended *)
(*     ("ok" or the kind of the exception raised).                         *)
(***************************************************************************)
EXTENDS Integers, Sequences, FiniteSets, TLC

VARIABLES tasks, stats, now, last

vars == <<tasks, stats, now, last>>

-----------------------------------------------------------------------------
(* Bounds of the model *)

MaxTasks == 1
MaxClock == 1
MaxReasonTags == 1
MaxCancelled == 1
MaxStoreTasks == 3
MaxStoreCancelled == 2
MaxListTasks == 2
MaxDueClock == 2

(* Program constants *)

TITLE_MIN_LENGTH == 1
TITLE_MAX_LENGTH == 200
HOURS_GE == 0
HOURS_LE == 1000
MAX_TAGS == 10
MAX_ESTIMATE == 40

-----------------------------------------------------------------------------
(* Optional values *)

None == <<>>
Some(x) == <<x>>
Val(o) == o[1]

(* Enumerations *)

LOW == "low"
MEDIUM == "medium"
HIGH == "high"
CRITICAL == "critical"
TaskPriority == {LOW, MEDIUM, HIGH, CRITICAL}

PENDING == "pending"
IN_PROGRESS == "in_progress"
COMPLETED == "completed"
CANCELLED == "cancelled"
TaskStatus == {PENDING, IN_PROGRESS, COMPLETED, CANCELLED}

(* How a call ends *)

OK == "ok"
ValidationError == "ValidationError"
InvalidTransition == "InvalidTransition"
TaskNotFoundError == "NotFound"
BusinessRuleError == "BusinessRuleError"

-----------------------------------------------------------------------------
(* Strings: str.strip() and str.lower() *)

UPPER == <<"A", "B", "C", "D", "E", "F", "G", "H", "I", "J", "K", "L", "M",
           "N", "O", "P", "Q", "R", "S", "T", "U", "V", "W", "X", "Y", "Z">>
LOWER == <<"a", "b", "c", "d", "e", "f", "g", "h", "i", "j", "k", "l", "m",
           "n", "o", "p", "q", "r", "s", "t", "u", "v", "w", "x", "y", "z">>

LowerChar(c) ==
    IF \E i \in 1..Len(UPPER) : UPPER[i] = c
    THEN LOWER[CHOOSE i \in 1..Len(UPPER) : UPPER[i] = c]
    ELSE c

StrLower(s) == [i \in 1..Len(s) |-> LowerChar(s[i])]

RECURSIVE LStrip(_)
LStrip(s) == IF s # <<>> /\ Head(s) = " " THEN LStrip(Tail(s)) ELSE s

RECURSIVE RStrip(_)
RStrip(s) ==
    IF s # <<>> /\ s[Len(s)] = " " THEN RStrip(SubSeq(s, 1, Len(s) - 1)) ELSE s

StrStrip(s) == RStrip(LStrip(s))

(* list(set(...)): the elements of a set in some order.  The order Python  *)
(* gives depends on the hashes; no operation of the program reads a tag by *)
(* its position, so one order stands for all.                              *)
RECURSIVE ListOfSet(_)
ListOfSet(S) ==
    IF S = {} THEN <<>>
    ELSE LET x == CHOOSE y \in S : TRUE IN <<x>> \o ListOfSet(S \ {x})

-----------------------------------------------------------------------------
(* Task entity: field constraints and validators *)

title_ok(title) == title >= TITLE_MIN_LENGTH /\ title <= TITLE_MAX_LENGTH

estimated_hours_ok(h) == h = None \/ (Val(h) >= HOURS_GE /\ Val(h) <= HOURS_LE)

\* validate_due_date: returns v, or raises when v is before the clock
validate_due_date_ok(v, clock) == ~(v # None /\ Val(v) < clock)

\* validate_tags: set(tag.strip().lower() for tag in v if tag.strip())
normalized_tag_set(v) ==
    {StrLower(StrStrip(v[i])) : i \in {j \in 1..Len(v) : StrStrip(v[j]) # <<>>}}

\* validate_tags: the normalized list
normalized_tags(v) == ListOfSet(normalized_tag_set(v))

\* Mutant: the limit is applied to the list as given
validate_tags_counts_raw(v) == ~(Len(v) > MAX_TAGS)

\* validate_tags: the limit; the length of the list is the size of the set
validate_tags_ok(v) == ~(Cardinality(normalized_tag_set(v)) > MAX_TAGS)

-----------------------------------------------------------------------------
(* Task entity: construction *)

\* Task(...): the constructor's validation; every field constraint and
\* validator must pass before the task exists
Task_ok(title, due_date, tags, estimated_hours, clock) ==
    /\ title_ok(title)
    /\ validate_due_date_ok(due_date, clock)
    /\ validate_tags_ok(tags)
    /\ estimated_hours_ok(estimated_hours)

\* Task(...): the constructed entity (status and timestamps take defaults;
\* assigned_to is not supplied and takes its default, None; description is
\* read by no operation and is left out)
Task(id, title, priority, due_date, tags, estimated_hours, clock) ==
    [id |-> id,
     title |-> title,
     priority |-> priority,
     status |-> PENDING,
     created_at |-> clock,
     updated_at |-> clock,
     due_date |-> due_date,
     assigned_to |-> None,
     tags |-> normalized_tags(tags),
     estimated_hours |-> estimated_hours]

-----------------------------------------------------------------------------
(* Task entity: the status operations.  Each returns the task afterwards   *)
(* and how the call ended; a call that raises leaves the task as it was.   *)

Raise(t, kind) == [task |-> t, result |-> kind]
Return(t) == [task |-> t, result |-> OK]

\* Mutant: the guard lets an in_progress task through
mark_in_progress_from_active(t, clock) ==
    IF t.status \in {COMPLETED, CANCELLED}
    THEN Raise(t, InvalidTransition)
    ELSE Return([t EXCEPT !.status = IN_PROGRESS, !.updated_at = clock])

mark_in_progress(t, clock) ==
    IF t.status # PENDING
    THEN Raise(t, InvalidTransition)
    ELSE Return([t EXCEPT !.status = IN_PROGRESS, !.updated_at = clock])

\* Mutant: the guard forgets completed, a task can be completed again
mark_completed_again(t, clock) ==
    IF t.status = CANCELLED
    THEN Raise(t, InvalidTransition)
    ELSE Return([t EXCEPT !.status = COMPLETED, !.updated_at = clock])

\* Mutant: the guard forgets cancelled
mark_completed_from_cancelled(t, clock) ==
    IF t.status = COMPLETED
    THEN Raise(t, InvalidTransition)
    ELSE Return([t EXCEPT !.status = COMPLETED, !.updated_at = clock])

mark_completed(t, clock) ==
    IF t.status \in {COMPLETED, CANCELLED}
    THEN Raise(t, InvalidTransition)
    ELSE Return([t EXCEPT !.status = COMPLETED, !.updated_at = clock])

\* "cancelled:" + reason
CANCELLED_PREFIX == <<"c", "a", "n", "c", "e", "l", "l", "e", "d", ":">>
cancel_tag(reason) == CANCELLED_PREFIX \o reason

\* `if reason:` is false for None and for the empty string
reason_given(reason) == reason # None /\ Val(reason) # <<>>

\* Mutant: the guard rejects every finished task, cancelled included
cancel_rejects_cancelled(t, reason, clock) ==
    IF t.status \in {COMPLETED, CANCELLED}
    THEN Raise(t, InvalidTransition)
    ELSE Return([t EXCEPT
            !.status = CANCELLED,
            !.updated_at = clock,
            !.tags = IF reason_given(reason)
                     THEN Append(@, cancel_tag(Val(reason)))
                     ELSE @])

cancel(t, reason, clock) ==
    IF t.status = COMPLETED
    THEN Raise(t, InvalidTransition)
    ELSE Return([t EXCEPT
            !.status = CANCELLED,
            !.updated_at = clock,
            !.tags = IF reason_given(reason)
                     THEN Append(@, cancel_tag(Val(reason)))
                     ELSE @])

\* Mutant: a cancelled task is no longer overdue
is_overdue_active_only(t, clock) ==
    IF t.due_date = None THEN FALSE
    ELSE Val(t.due_date) < clock /\ t.status \notin {COMPLETED, CANCELLED}

\* is_overdue
is_overdue(t, clock) ==
    IF t.due_date = None THEN FALSE
    ELSE Val(t.due_date) < clock /\ t.status # COMPLETED

-----------------------------------------------------------------------------
(* Task entity: assignment to a field.  model_config sets                  *)
(* validate_assignment=True, so setattr(task, field, value) runs the       *)
(* field's constraints and validators: a rejected value raises             *)
(* ValidationError and leaves the field as it was; an accepted one is      *)
(* stored as validated (tags are stored normalized).                       *)

setattr_ok(field, value, clock) ==
    CASE field = "title" -> title_ok(value)
      [] field = "due_date" -> validate_due_date_ok(value, clock)
      [] field = "tags" -> validate_tags_ok(value)
      [] field = "estimated_hours" -> estimated_hours_ok(value)
      [] OTHER -> TRUE

setattr_value(field, value) ==
    IF field = "tags" THEN normalized_tags(value) ELSE value

\* Mutant: validate_assignment is off, the value is stored as given
setattr_unvalidated(t, field, value, clock) ==
    Return([t EXCEPT ![field] = value])

setattr(t, field, value, clock) ==
    IF setattr_ok(field, value, clock)
    THEN Return([t EXCEPT ![field] = setattr_value(field, value)])
    ELSE Raise(t, ValidationError)

-----------------------------------------------------------------------------
(* TaskService *)

\* Mutant: only completed is treated as final
_validate_status_transition_completed_only(current, new_status) ==
    /\ ~(current = COMPLETED)
    /\ ~(current = IN_PROGRESS /\ new_status = PENDING)

\* Mutant: the check that in_progress cannot go back to pending is missing
_validate_status_transition_allows_back(current, new_status) ==
    ~(current \in {COMPLETED, CANCELLED})

\* Mutant: the table of final statuses is missing; only the step back from
\* in_progress to pending is rejected
_validate_status_transition_no_finals(current, new_status) ==
    ~(current = IN_PROGRESS /\ new_status = PENDING)

\* _validate_status_transition: TRUE when it returns, FALSE when it raises
\* BusinessRuleError
_validate_status_transition(current, new_status) ==
    /\ ~(current \in {COMPLETED, CANCELLED})
    /\ ~(current = IN_PROGRESS /\ new_status = PENDING)

\* Mutant: the entity is validated before the business rules are checked
create_task_validates_first(title, priority, due_date, tags, hours, clock) ==
    IF ~Task_ok(title, due_date, tags, hours, clock)
    THEN ValidationError
    ELSE IF priority = CRITICAL /\ due_date = None
    THEN BusinessRuleError
    ELSE IF hours # None /\ Val(hours) > MAX_ESTIMATE
    THEN BusinessRuleError
    ELSE OK

\* create_task: how the call ends for the given arguments
create_task_result(title, priority, due_date, tags, estimated_hours, clock) ==
    IF priority = CRITICAL /\ due_date = None
    THEN BusinessRuleError
    ELSE IF estimated_hours # None /\ Val(estimated_hours) > MAX_ESTIMATE
    THEN BusinessRuleError
    ELSE IF ~Task_ok(title, due_date, tags, estimated_hours, clock)
    THEN ValidationError
    ELSE OK

\* update_task, the loop over updates.items(): `updates` is the sequence of
\* <<field, value>> pairs in the caller's order.  The loop stops at the
\* first pair that raises; the pairs before it have been assigned.
RECURSIVE apply_updates(_, _, _)
apply_updates(t, updates, clock) ==
    IF updates = <<>> THEN Return(t)
    ELSE LET field == Head(updates)[1]
             value == Head(updates)[2]
         IN  IF field = "status" /\ ~_validate_status_transition(t.status, value)
             THEN Raise(t, BusinessRuleError)
             ELSE LET r == setattr(t, field, value, clock)
                  IN  IF r.result # OK THEN r
                      ELSE apply_updates(r.task, Tail(updates), clock)

\* update_task on a stored task: the loop, then the timestamp
update_task(t, updates, clock) ==
    LET r == apply_updates(t, updates, clock)
    IN  IF r.result # OK THEN r
        ELSE Return([r.task EXCEPT !.updated_at = clock])

\* get_statistics (completion_rate is left out: it is a float quotient of
\* two of the numbers below)
get_statistics ==
    [total_tasks |-> Cardinality(DOMAIN tasks),
     active_tasks |->
        Cardinality({i \in DOMAIN tasks : tasks[i].status \in {PENDING, IN_PROGRESS}}),
     overdue_tasks |->
        Cardinality({i \in DOMAIN tasks : is_overdue(tasks[i], now)}),
     total_created |-> stats.total_created,
     total_completed |-> stats.total_completed,
     total_cancelled |-> stats.total_cancelled]

\* list(self._tasks.values()): the stored tasks in insertion order, which
\* is the order of the ids uuid4 hands out
StoreValues == [i \in 1..Cardinality(DOMAIN tasks) |-> tasks[i]]

\* `x in xs` for a list
InList(x, xs) == \E i \in 1..Len(xs) : xs[i] = x

\* list.sort(key=created_at, reverse=True), one insertion: the sort is
\* stable, so t goes behind every task created at the same time or later
RECURSIVE InsertByCreatedAt(_, _)
InsertByCreatedAt(t, sorted) ==
    IF sorted = <<>> THEN <<t>>
    ELSE IF Head(sorted).created_at >= t.created_at
    THEN <<Head(sorted)>> \o InsertByCreatedAt(t, Tail(sorted))
    ELSE <<t>> \o sorted

\* list.sort(key=created_at, reverse=True)
RECURSIVE SortByCreatedAt(_)
SortByCreatedAt(ts) ==
    IF ts = <<>> THEN <<>>
    ELSE InsertByCreatedAt(ts[Len(ts)],
                           SortByCreatedAt(SubSeq(ts, 1, Len(ts) - 1)))

\* Mutant: the slice ends at limit, not at offset + limit
Slice_to_limit(xs, offset, limit) ==
    IF offset >= Len(xs) \/ offset >= limit THEN <<>>
    ELSE SubSeq(xs, offset + 1, IF limit < Len(xs) THEN limit ELSE Len(xs))

\* xs[offset:offset + limit] for offset >= 0 and limit >= 0
Slice(xs, offset, limit) ==
    IF offset >= Len(xs) THEN <<>>
    ELSE SubSeq(xs, offset + 1,
                IF offset + limit < Len(xs) THEN offset + limit ELSE Len(xs))

\* list_tasks: a filter that is None (overdue_only: FALSE) is skipped
list_tasks(status, priority, assigned_to, tag, overdue_only, limit, offset) ==
    LET Kept(t) ==
            /\ status # None => t.status = Val(status)
            /\ priority # None => t.priority = Val(priority)
            /\ assigned_to # None => t.assigned_to = assigned_to
            /\ tag # None => InList(Val(tag), t.tags)
            /\ overdue_only => is_overdue(t, now)
    IN  Slice(SortByCreatedAt(SelectSeq(StoreValues, Kept)), offset, limit)

\* get_statistics, completion_rate = total_completed / max(1, total_tasks)
\* * 100, compared with a whole number p: the quotient of two counters is
\* above p/100 exactly when total_completed * 100 > p * max(1, total_tasks)
\* (the float division and product round monotonically and 1.0 * 100 is
\* exact, so the comparison with 100 is the same)
completion_rate_above(p) ==
    LET total_tasks == Cardinality(DOMAIN tasks)
    IN  stats.total_completed * 100 > p * (IF total_tasks > 1 THEN total_tasks ELSE 1)

Called(op, result) == [op |-> op, result |-> result]

-----------------------------------------------------------------------------
(* The state machine *)

\* TaskService.__init__
Init ==
    /\ tasks = <<>>
    /\ stats = [total_created |-> 0, total_completed |-> 0, total_cancelled |-> 0]
    /\ now = 0
    /\ last = Called("init", OK)

\* The clock advances
Tick ==
    /\ now < MaxClock
    /\ now' = now + 1
    /\ UNCHANGED <<tasks, stats, last>>

\* uuid4: an id no stored task has.  Ids are opaque and compared only for
\* equality, and no task is ever removed, so the next unused number stands
\* for any fresh id.
uuid4 == Cardinality(DOMAIN tasks) + 1

\* Mutant: total_created is counted before the task is validated
CreateTask_counts_first(title, priority, due_date, tags, estimated_hours) ==
    LET result == create_task_result(title, priority, due_date, tags,
                                     estimated_hours, now)
    IN  IF result = BusinessRuleError
        THEN /\ last' = Called("create_task", result)
             /\ UNCHANGED <<tasks, stats, now>>
        ELSE /\ last' = Called("create_task", result)
             /\ stats' = [stats EXCEPT !.total_created = @ + 1]
             /\ tasks' = IF result = OK
                         THEN (uuid4 :> Task(uuid4, title, priority, due_date,
                                             tags, estimated_hours, now)) @@ tasks
                         ELSE tasks
             /\ UNCHANGED now

\* create_task
CreateTask(title, priority, due_date, tags, estimated_hours) ==
    LET result == create_task_result(title, priority, due_date, tags,
                                     estimated_hours, now)
    IN  IF result # OK
        THEN /\ last' = Called("create_task", result)
             /\ UNCHANGED <<tasks, stats, now>>
        ELSE LET id == uuid4
             IN  /\ last' = Called("create_task", OK)
                 /\ stats' = [stats EXCEPT !.total_created = @ + 1]
                 /\ tasks' = (id :> Task(id, title, priority, due_date, tags,
                                         estimated_hours, now)) @@ tasks
                 /\ UNCHANGED now

\* Mutant: an unknown id gives None back instead of raising
get_task_returns_none(id) ==
    IF id \in DOMAIN tasks THEN Return(tasks[id]) ELSE Return(None)

\* get_task: the stored task, or TaskNotFoundError when _tasks.get gives
\* None
get_task(id) ==
    IF id \in DOMAIN tasks THEN Return(tasks[id]) ELSE Raise(None, TaskNotFoundError)

\* A call of get_task
GetTask(id) ==
    /\ last' = Called("get_task", get_task(id).result)
    /\ UNCHANGED <<tasks, stats, now>>

\* A call of list_tasks: it builds and returns a new list and assigns
\* nothing
ListTasks(status, priority, assigned_to, tag, overdue_only, limit, offset) ==
    /\ last' = Called("list_tasks", OK)
    /\ UNCHANGED <<tasks, stats, now>>

\* update_task
UpdateTask(id, updates) ==
    IF id \notin DOMAIN tasks
    THEN /\ last' = Called("update_task", TaskNotFoundError)
         /\ UNCHANGED <<tasks, stats, now>>
    ELSE LET r == update_task(tasks[id], updates, now)
         IN  /\ tasks' = [tasks EXCEPT ![id] = r.task]
             /\ last' = Called("update_task", r.result)
             /\ UNCHANGED <<stats, now>>

\* Mutant: total_completed is counted before mark_completed is called
CompleteTask_counts_first(id) ==
    IF id \notin DOMAIN tasks
    THEN /\ last' = Called("complete_task", TaskNotFoundError)
         /\ UNCHANGED <<tasks, stats, now>>
    ELSE LET r == mark_completed(tasks[id], now)
         IN  /\ tasks' = [tasks EXCEPT ![id] = r.task]
             /\ stats' = [stats EXCEPT !.total_completed = @ + 1]
             /\ last' = Called("complete_task", r.result)
             /\ UNCHANGED now

\* complete_task
CompleteTask(id) ==
    IF id \notin DOMAIN tasks
    THEN /\ last' = Called("complete_task", TaskNotFoundError)
         /\ UNCHANGED <<tasks, stats, now>>
    ELSE LET r == mark_completed(tasks[id], now)
         IN  /\ tasks' = [tasks EXCEPT ![id] = r.task]
             /\ stats' = IF r.result = OK
                         THEN [stats EXCEPT !.total_completed = @ + 1]
                         ELSE stats
             /\ last' = Called("complete_task", r.result)
             /\ UNCHANGED now

\* cancel_task
CancelTask(id, reason) ==
    IF id \notin DOMAIN tasks
    THEN /\ last' = Called("cancel_task", TaskNotFoundError)
         /\ UNCHANGED <<tasks, stats, now>>
    ELSE LET r == cancel(tasks[id], reason, now)
         IN  /\ tasks' = [tasks EXCEPT ![id] = r.task]
             /\ stats' = IF r.result = OK
                         THEN [stats EXCEPT !.total_cancelled = @ + 1]
                         ELSE stats
             /\ last' = Called("cancel_task", r.result)
             /\ UNCHANGED now

\* The entity operations, called on the task get_task returns: the stored
\* instance itself
MarkInProgress(id) ==
    /\ id \in DOMAIN tasks
    /\ LET r == mark_in_progress(tasks[id], now)
       IN  /\ tasks' = [tasks EXCEPT ![id] = r.task]
           /\ last' = Called("mark_in_progress", r.result)
    /\ UNCHANGED <<stats, now>>

MarkCompleted(id) ==
    /\ id \in DOMAIN tasks
    /\ LET r == mark_completed(tasks[id], now)
       IN  /\ tasks' = [tasks EXCEPT ![id] = r.task]
           /\ last' = Called("mark_completed", r.result)
    /\ UNCHANGED <<stats, now>>

Cancel(id, reason) ==
    /\ id \in DOMAIN tasks
    /\ LET r == cancel(tasks[id], reason, now)
       IN  /\ tasks' = [tasks EXCEPT ![id] = r.task]
           /\ last' = Called("cancel", r.result)
    /\ UNCHANGED <<stats, now>>

-----------------------------------------------------------------------------
(* Bounding.  Two things grow without limit in the program: the tags of a  *)
(* task that is cancelled again and again with a reason, and the counter   *)
(* total_cancelled.  The specifications take a step only within these.     *)

\* The number of "cancelled:<reason>" tags a task carries
ReasonTags(t) ==
    Cardinality({i \in 1..Len(t.tags) :
        /\ Len(t.tags[i]) >= Len(CANCELLED_PREFIX)
        /\ SubSeq(t.tags[i], 1, Len(CANCELLED_PREFIX)) = CANCELLED_PREFIX})

WithinBounds(maxReasonTags, maxCancelled) ==
    /\ \A i \in DOMAIN tasks' : ReasonTags(tasks'[i]) <= maxReasonTags
    /\ stats'.total_cancelled <= maxCancelled

-----------------------------------------------------------------------------
(* Spec: every operation of the service and of the entity, on a store of   *)
(* at most MaxTasks tasks, with the clock running.                         *)

Ids == 1..MaxTasks

\* create_task(title, priority, due_date, tags, estimated_hours)
CreateArgs ==
    {<<1, MEDIUM, None, <<>>, None>>,
     <<1, CRITICAL, Some(0), <<>>, None>>,
     <<1, CRITICAL, None, <<>>, None>>,
     <<0, MEDIUM, None, <<>>, None>>,
     <<1, MEDIUM, None, <<>>, Some(41)>>}

\* cancel(reason): None, the empty string, "B"
Reasons == {None, Some(<<>>), Some(<<"B">>)}

\* update_task(**updates)
Updates ==
    {<<<<"status", s>>>> : s \in TaskStatus}
    \cup {<<<<"title", 2>>, <<"status", PENDING>>>>,
          <<<<"status", PENDING>>, <<"title", 2>>>>,
          <<<<"title", 0>>>>}

Create ==
    \E a \in CreateArgs :
        /\ Cardinality(DOMAIN tasks) < MaxTasks
        /\ CreateTask(a[1], a[2], a[3], a[4], a[5])

Get == \E id \in Ids : GetTask(id)

Update == \E id \in Ids, updates \in Updates : UpdateTask(id, updates)

Complete == \E id \in Ids : CompleteTask(id)

CancelService ==
    \E id \in Ids, reason \in Reasons :
        CancelTask(id, reason) /\ WithinBounds(MaxReasonTags, MaxCancelled)

EntityInProgress == \E id \in Ids : MarkInProgress(id)

EntityCompleted == \E id \in Ids : MarkCompleted(id)

EntityCancel ==
    \E id \in Ids, reason \in Reasons :
        Cancel(id, reason) /\ WithinBounds(MaxReasonTags, MaxCancelled)

Next ==
    \/ Tick
    \/ Create
    \/ Get
    \/ Update
    \/ Complete
    \/ CancelService
    \/ EntityInProgress
    \/ EntityCompleted
    \/ EntityCancel

Spec == Init /\ [][Next]_vars

(* SpecService: the calls of the service alone; the entity is reached only *)
(* through them.                                                           *)

ServiceNext ==
    \/ Tick
    \/ Create
    \/ Get
    \/ Update
    \/ Complete
    \/ CancelService

SpecService == Init /\ [][ServiceNext]_vars

-----------------------------------------------------------------------------
(* Properties of the status state machine, of update_task and of the tags *)

Terminal == {COMPLETED, CANCELLED}

Stored(id) == id \in DOMAIN tasks

HasStatusField(updates) == \E i \in 1..Len(updates) : updates[i][1] = "status"

\* A step that is a call of a status-changing operation on task id
StatusOperation(id) ==
    \/ MarkInProgress(id)
    \/ MarkCompleted(id)
    \/ \E reason \in Reasons : Cancel(id, reason)
    \/ CompleteTask(id)
    \/ \E reason \in Reasons : CancelTask(id, reason)
    \/ \E updates \in Updates : HasStatusField(updates) /\ UpdateTask(id, updates)

\* C1: once a stored task's status is completed or cancelled, no step of
\* any service or entity operation makes its status different.
C1_TerminalStable ==
    [][\A id \in DOMAIN tasks :
          tasks[id].status \in Terminal
              => id \in DOMAIN tasks' /\ tasks'[id].status = tasks[id].status]_vars

\* C1 witness: a cancelled task on which a later update_task with a status
\* field was attempted and rejected.
C1_Witness ==
    \E id \in DOMAIN tasks :
        /\ tasks[id].status = CANCELLED
        /\ last = Called("update_task", BusinessRuleError)

\* C2 as stated: on a completed or cancelled task every call of a
\* status-changing operation fails.
C2_NoOperationSucceedsOnTerminal ==
    [][\A id \in Ids :
          Stored(id) /\ tasks[id].status \in Terminal /\ StatusOperation(id)
              => last'.result # OK]_vars

\* C3 as stated: a failed update_task leaves every field of every stored
\* task as it was.
C3_FailedUpdateLeavesStore ==
    [][\A id \in Ids, updates \in Updates :
          UpdateTask(id, updates) /\ last'.result # OK => tasks' = tasks]_vars

\* A tag list as the data model describes it
TagsWellFormed(tags) ==
    /\ \A i \in 1..Len(tags) :
          tags[i] # <<>> /\ tags[i] = StrLower(StrStrip(tags[i]))
    /\ \A i, j \in 1..Len(tags) : tags[i] = tags[j] => i = j
    /\ Len(tags) <= MAX_TAGS

\* C4 as stated: after any sequence of create_task, update_task,
\* complete_task and cancel_task calls every stored task's tags are
\* lowercase, trimmed, non-empty, free of duplicates and at most 10.
C4_TagsWellFormed == \A id \in DOMAIN tasks : TagsWellFormed(tasks[id].tags)

\* The (current, requested) pairs the claim says update_task rejects
RejectedPair(current, requested) ==
    current \in Terminal \/ (current = IN_PROGRESS /\ requested = PENDING)

\* The status an update asks for
Requested(updates) ==
    updates[CHOOSE i \in 1..Len(updates) : updates[i][1] = "status"][2]

\* The other fields of an update all carry values the entity accepts
OthersAccepted(updates) ==
    \A i \in 1..Len(updates) :
        updates[i][1] # "status" => setattr_ok(updates[i][1], updates[i][2], now)

\* C5: update_task with a status field (alone, or before or after other
\* fields with acceptable values) fails with BusinessRuleError exactly on
\* the rejected pairs and leaves the status; on every other pair,
\* requested = current included, it succeeds and the status is the
\* requested one.  (Written "outcome, or the step is not this call".)
C5_UpdateStatusPolicy ==
    [][last'.op = "update_task" =>
          \A id \in DOMAIN tasks, updates \in {u \in Updates : HasStatusField(u)} :
              \/ IF RejectedPair(tasks[id].status, Requested(updates))
                 THEN /\ last'.result = BusinessRuleError
                      /\ tasks'[id].status = tasks[id].status
                 ELSE /\ last'.result = OK
                      /\ tasks'[id].status = Requested(updates)
              \/ ~OthersAccepted(updates)
              \/ ~UpdateTask(id, updates)]_vars

\* C5 witness: an update_task made after the clock moved on succeeded and
\* the task is in_progress.
C5_Witness ==
    \E id \in DOMAIN tasks :
        /\ tasks[id].status = IN_PROGRESS
        /\ tasks[id].updated_at > tasks[id].created_at
        /\ last = Called("update_task", OK)

\* C6: mark_in_progress succeeds exactly from pending and then sets
\* in_progress; from any other status it fails with InvalidTransition and
\* changes nothing.  Either way the task is not pending afterwards, so the
\* next call on it fails.
C6_MarkInProgress ==
    [][\A id \in Ids :
          last'.op = "mark_in_progress" /\ MarkInProgress(id)
              => /\ IF tasks[id].status = PENDING
                    THEN /\ last'.result = OK
                         /\ tasks'[id].status = IN_PROGRESS
                    ELSE /\ last'.result = InvalidTransition
                         /\ tasks' = tasks
                 /\ mark_in_progress(tasks'[id], now).result = InvalidTransition]_vars

\* C6 witness: a task in_progress on which mark_in_progress was called
\* again and failed.
C6_Witness ==
    \E id \in DOMAIN tasks :
        /\ tasks[id].status = IN_PROGRESS
        /\ last = Called("mark_in_progress", InvalidTransition)

\* C7: mark_completed and complete_task succeed exactly from pending or
\* in_progress and then set completed; complete_task then adds exactly 1
\* to total_completed; from completed or cancelled both fail and change
\* neither the task nor the counter.
C7_MarkCompleted ==
    [][\A id \in Ids :
          /\ last'.op = "mark_completed" /\ MarkCompleted(id)
                => IF tasks[id].status \in {PENDING, IN_PROGRESS}
                   THEN /\ last'.result = OK
                        /\ tasks'[id].status = COMPLETED
                   ELSE /\ last'.result = InvalidTransition
                        /\ tasks' = tasks
          /\ last'.op = "complete_task" /\ Stored(id) /\ CompleteTask(id)
                => IF tasks[id].status \in {PENDING, IN_PROGRESS}
                   THEN /\ last'.result = OK
                        /\ tasks'[id].status = COMPLETED
                        /\ stats'.total_completed = stats.total_completed + 1
                   ELSE /\ last'.result = InvalidTransition
                        /\ tasks' = tasks
                        /\ stats' = stats]_vars

\* C7 witness: complete_task succeeded on a task and counted it.
C7_Witness ==
    \E id \in DOMAIN tasks :
        /\ tasks[id].status = COMPLETED
        /\ stats.total_completed = 1
        /\ last = Called("complete_task", OK)

-----------------------------------------------------------------------------
(* SpecStore: a fresh service on which only create_task, complete_task and *)
(* cancel_task are called, and every call succeeds; up to MaxStoreTasks    *)
(* tasks.                                                                  *)

StoreIds == 1..MaxStoreTasks

StoreCreate ==
    /\ CreateTask(1, MEDIUM, None, <<>>, None)
    /\ Cardinality(DOMAIN tasks') <= MaxStoreTasks
    /\ last'.result = OK

StoreComplete == \E id \in StoreIds : CompleteTask(id) /\ last'.result = OK

StoreCancel ==
    \E id \in StoreIds, reason \in Reasons :
        /\ CancelTask(id, reason)
        /\ WithinBounds(MaxReasonTags, MaxStoreCancelled)
        /\ last'.result = OK

StoreNext == StoreCreate \/ StoreComplete \/ StoreCancel

SpecStore == Init /\ [][StoreNext]_vars

WithStatus(S) == {id \in DOMAIN tasks : tasks[id].status \in S}

\* C9 as stated: after successful create_task, complete_task and
\* cancel_task calls get_statistics reports total_tasks = tasks created,
\* active_tasks = stored tasks pending or in_progress, total_completed =
\* stored tasks completed, total_cancelled = stored tasks cancelled.
C9_StatisticsCountTasks ==
    /\ get_statistics.total_tasks = stats.total_created
    /\ get_statistics.active_tasks = Cardinality(WithStatus({PENDING, IN_PROGRESS}))
    /\ get_statistics.total_completed = Cardinality(WithStatus({COMPLETED}))
    /\ get_statistics.total_cancelled = Cardinality(WithStatus({CANCELLED}))

-----------------------------------------------------------------------------
(* SpecCreate: create_task alone, over the arguments its rules and the     *)
(* entity's constraints tell apart, with the clock running.                *)

Titles == {0, 1, 200, 201}
Priorities == TaskPriority
DueDates == {None, Some(0)}
Hours == {None, Some(-1), Some(40), Some(41)}

\* ["Foo", " foo ", "BAR"]
FooTags == <<<<"F", "o", "o">>, <<" ", "f", "o", "o", " ">>, <<"B", "A", "R">>>>
\* eleven distinct tags
ElevenTags == <<<<"a">>, <<"b">>, <<"c">>, <<"d">>, <<"e">>, <<"f">>, <<"g">>,
                <<"h">>, <<"i">>, <<"j">>, <<"k">>>>
TagLists == {<<>>, FooTags, ElevenTags}

\* create_task(title, priority, due_date, tags, estimated_hours): every
\* title, priority and due_date with and without an estimate above the
\* limit, and every tag list and estimate with and without a title
CreateCalls ==
    (Titles \X Priorities \X DueDates \X {<<>>} \X {None, Some(41)})
    \cup ({0, 1} \X {MEDIUM} \X {None} \X TagLists \X Hours)

CreateAny ==
    \E a \in CreateCalls :
        /\ CreateTask(a[1], a[2], a[3], a[4], a[5])
        /\ Cardinality(DOMAIN tasks') <= MaxTasks

CreateNext == Tick \/ CreateAny

SpecCreate == Init /\ [][CreateNext]_vars

EntityRejects(a) ==
    \/ a[1] = 0 \/ a[1] > 200
    \/ a[3] # None /\ Val(a[3]) < now
    \/ Cardinality(normalized_tag_set(a[4])) > 10
    \/ a[5] # None /\ (Val(a[5]) < 0 \/ Val(a[5]) > 1000)

\* A business rule rejects the arguments
RuleRejects(a) ==
    \/ a[2] = CRITICAL /\ a[3] = None
    \/ a[5] # None /\ Val(a[5]) > 40

\* C11: create_task is all-or-nothing.  It fails exactly when a business
\* rule or the entity rejects the arguments (ValidationError in the latter
\* case when no business rule fires), and then the store and the three
\* counters are unchanged; otherwise it adds exactly one task, pending,
\* under an id that was not a key, leaves the other tasks, and adds
\* exactly 1 to total_created and nothing to the other counters.
C11_CreateAllOrNothing ==
    [][\A a \in CreateCalls :
          \/ IF RuleRejects(a) \/ EntityRejects(a)
             THEN /\ last'.result =
                        IF RuleRejects(a) THEN BusinessRuleError ELSE ValidationError
                  /\ tasks' = tasks
                  /\ stats' = stats
             ELSE /\ last'.result = OK
                  /\ \E id \in DOMAIN tasks' \ DOMAIN tasks :
                        /\ DOMAIN tasks' = DOMAIN tasks \cup {id}
                        /\ tasks'[id].status = PENDING
                        /\ tasks'[id].id = id
                  /\ \A id \in DOMAIN tasks : tasks'[id] = tasks[id]
                  /\ stats' = [stats EXCEPT !.total_created = @ + 1]
          \/ ~CreateTask(a[1], a[2], a[3], a[4], a[5])]_vars

\* C11 witness: one task was created and counted, and a later create_task
\* ended in ValidationError without touching the store or the counter.
C11_Witness ==
    /\ Cardinality(DOMAIN tasks) = 1
    /\ \A id \in DOMAIN tasks : tasks[id].status = PENDING
    /\ stats.total_created = 1
    /\ last = Called("create_task", ValidationError)

-----------------------------------------------------------------------------
(* SpecLookup: the calls of the service with ids of stored tasks and with  *)
(* an id that is never a key of the store.                                 *)

LookupIds == 1..(MaxTasks + 1)

LookupGet == \E id \in LookupIds : GetTask(id)

LookupUpdate == \E id \in LookupIds, updates \in Updates : UpdateTask(id, updates)

LookupComplete == \E id \in LookupIds : CompleteTask(id)

LookupCancel ==
    \E id \in LookupIds, reason \in Reasons :
        CancelTask(id, reason) /\ WithinBounds(MaxReasonTags, MaxCancelled)

LookupNext ==
    \/ Tick
    \/ Create
    \/ LookupGet
    \/ LookupUpdate
    \/ LookupComplete
    \/ LookupCancel

SpecLookup == Init /\ [][LookupNext]_vars

\* A step that is a call of the service on task id
ServiceCallOn(id) ==
    \/ GetTask(id)
    \/ \E updates \in Updates : UpdateTask(id, updates)
    \/ CompleteTask(id)
    \/ \E reason \in Reasons : CancelTask(id, reason)

\* C12: get_task, update_task, complete_task and cancel_task with an id
\* that is not a key of the store fail with NotFound and leave the store
\* and the three counters; get_task with a key of the store returns the
\* task stored under it and changes neither store nor counters.
C12_UnknownIdNotFound ==
    [][\A id \in LookupIds :
          /\ \/ id \in DOMAIN tasks
             \/ /\ last'.result = TaskNotFoundError
                /\ tasks' = tasks
                /\ stats' = stats
             \/ ~ServiceCallOn(id)
          /\ \/ id \notin DOMAIN tasks
             \/ /\ last'.result = OK
                /\ get_task(id).task = tasks[id]
                /\ tasks' = tasks
                /\ stats' = stats
             \/ ~GetTask(id)]_vars

\* C12 witness: a task is stored and counted, and a cancel_task with an
\* id that is not a key ended in NotFound.
C12_Witness ==
    /\ DOMAIN tasks # {}
    /\ stats.total_created = 1
    /\ last = Called("cancel_task", TaskNotFoundError)

-----------------------------------------------------------------------------
(* SpecList: a store of up to MaxListTasks tasks that differ in priority,  *)
(* tags, due_date, creation time, assignee and status, and list_tasks      *)
(* called on it.                                                           *)

ListIds == 1..MaxListTasks

\* "foo", a tag of the tasks created with FooTags; "zzz", a tag of none
FOO == <<"f", "o", "o">>
ZZZ == <<"z", "z", "z">>

\* a user id
ANN == "ann"
BOB == "bob"

\* create_task(title, priority, due_date, tags, estimated_hours)
ListCreateArgs ==
    {<<1, MEDIUM, None, <<>>, None>>,
     <<1, HIGH, Some(0), FooTags, None>>}

ListCreate ==
    \E a \in ListCreateArgs :
        /\ CreateTask(a[1], a[2], a[3], a[4], a[5])
        /\ Cardinality(DOMAIN tasks') <= MaxListTasks
        /\ last'.result = OK

ListAssign ==
    \E id \in ListIds : UpdateTask(id, <<<<"assigned_to", Some(ANN)>>>>) /\ last'.result = OK

ListComplete == \E id \in ListIds : CompleteTask(id) /\ last'.result = OK

\* list_tasks(status, priority, assigned_to, tag, overdue_only): no
\* filter, each filter alone, filters together
ListFilters ==
    {<<None, None, None, None, FALSE>>,
     <<Some(PENDING), None, None, None, FALSE>>,
     <<Some(COMPLETED), None, None, None, FALSE>>,
     <<None, Some(HIGH), None, None, FALSE>>,
     <<None, None, Some(ANN), None, FALSE>>,
     <<None, None, Some(BOB), None, FALSE>>,
     <<None, None, None, Some(FOO), FALSE>>,
     <<None, None, None, Some(ZZZ), FALSE>>,
     <<None, None, None, None, TRUE>>,
     <<Some(PENDING), Some(HIGH), None, None, FALSE>>,
     <<Some(COMPLETED), None, Some(ANN), None, TRUE>>,
     <<Some(PENDING), Some(HIGH), Some(ANN), Some(FOO), TRUE>>}

\* <<limit, offset>>: no, one and every task a page; from the first, the
\* second and behind the last task
Pages == {0, 1, MaxListTasks + 1} \X {0, 1, MaxListTasks}

List ==
    \E f \in ListFilters, page \in Pages :
        ListTasks(f[1], f[2], f[3], f[4], f[5], page[1], page[2])

ListNext ==
    \/ Tick
    \/ ListCreate
    \/ ListAssign
    \/ ListComplete
    \/ List

SpecList == Init /\ [][ListNext]_vars

\* The stored tasks that satisfy every filter supplied
Matching(f) ==
    {id \in DOMAIN tasks :
        /\ f[1] # None => tasks[id].status = Val(f[1])
        /\ f[2] # None => tasks[id].priority = Val(f[2])
        /\ f[3] # None => tasks[id].assigned_to = f[3]
        /\ f[4] # None => \E i \in 1..Len(tasks[id].tags) : tasks[id].tags[i] = Val(f[4])
        /\ f[5] => /\ tasks[id].due_date # None
                   /\ Val(tasks[id].due_date) < now
                   /\ tasks[id].status # COMPLETED}

\* list_tasks with filters f and a page that holds every task
Listing(f) == list_tasks(f[1], f[2], f[3], f[4], f[5], Cardinality(DOMAIN tasks), 0)

\* What list_tasks returns for filters f, limit and offset, against the
\* stored tasks that satisfy f
ListedRight(f, limit, offset) ==
    LET all == Listing(f)
        r == list_tasks(f[1], f[2], f[3], f[4], f[5], limit, offset)
        rest == IF offset >= Len(all) THEN 0 ELSE Len(all) - offset
    IN  /\ Len(all) = Cardinality(Matching(f))
        /\ {all[i] : i \in 1..Len(all)} = {tasks[id] : id \in Matching(f)}
        /\ \A i, j \in 1..Len(all) :
              i < j => all[i].created_at >= all[j].created_at
        /\ Len(r) = IF limit < rest THEN limit ELSE rest
        /\ \A k \in 1..Len(r) : r[k] = all[offset + k]

\* C13: list_tasks returns exactly the stored tasks that satisfy all the
\* filters supplied, each once, newest created_at first, cut to the
\* positions [offset, offset + limit) of that sequence (so nothing when
\* offset is at least the number of matching tasks); the call does not
\* fail and leaves the store and the counters.
C13_ListTasks ==
    /\ [](\A f \in ListFilters, page \in Pages : ListedRight(f, page[1], page[2]))
    /\ [][last'.op = "list_tasks" =>
             last'.result = OK /\ tasks' = tasks /\ stats' = stats]_vars

\* C13 witness: list_tasks was called on a store where the second page of
\* size 1 of the unfiltered listing is a task older than the first, and
\* the filter status = completed keeps one task and drops another.
C13_Witness ==
    /\ last = Called("list_tasks", OK)
    /\ Cardinality(DOMAIN tasks) >= 2
    /\ LET first == list_tasks(None, None, None, None, FALSE, 1, 0)
           second == list_tasks(None, None, None, None, FALSE, 1, 1)
       IN  /\ Len(first) = 1 /\ Len(second) = 1
           /\ first[1].created_at > second[1].created_at
    /\ Len(list_tasks(Some(COMPLETED), None, None, None, FALSE, 2, 0)) = 1

-----------------------------------------------------------------------------
(* SpecFields: update_task with one field that is not the status: the id,  *)
(* and values at and beyond the limits of the entity's constraints.        *)

\* an id that is the key of no stored task
OTHER_ID == MaxTasks + 1

\* update_task(**updates)
FieldUpdates ==
    {<<<<"id", OTHER_ID>>>>,
     <<<<"title", 0>>>>, <<<<"title", 200>>>>, <<<<"title", 201>>>>,
     <<<<"due_date", Some(0)>>>>,
     <<<<"tags", ElevenTags>>>>, <<<<"tags", FooTags>>>>,
     <<<<"estimated_hours", Some(-1)>>>>,
     <<<<"estimated_hours", Some(1000)>>>>,
     <<<<"estimated_hours", Some(1001)>>>>}

FieldsUpdate == \E id \in Ids, updates \in FieldUpdates : UpdateTask(id, updates)

FieldsCreate ==
    /\ Cardinality(DOMAIN tasks) < MaxTasks
    /\ CreateTask(1, MEDIUM, None, <<>>, None)

FieldsNext ==
    \/ Tick
    \/ FieldsCreate
    \/ FieldsUpdate

SpecFields == Init /\ [][FieldsNext]_vars

\* C14 as stated: in every reachable state each key of the store equals
\* the id field of the task stored under it, and no two stored tasks have
\* the same id.
C14_IdsMatchKeys ==
    /\ \A k \in DOMAIN tasks : tasks[k].id = k
    /\ \A j, k \in DOMAIN tasks : tasks[j].id = tasks[k].id => j = k

-----------------------------------------------------------------------------
(* SpecTags: tasks constructed by create_task with tag lists that need     *)
(* trimming, lowercasing, dropping and deduplicating, at and beyond the    *)
(* limit of 10.                                                            *)

\* ten distinct tags
TenTags == SubSeq(ElevenTags, 1, 10)
\* eleven tags, ten after normalization: " A " is "a" again
ElevenRawTags == TenTags \o <<<<" ", "A", " ">>>>
\* ["", "  ", "x"]
BlankTags == <<<<>>, <<" ", " ">>, <<"x">>>>

TagInputs == {<<>>, FooTags, BlankTags, TenTags, ElevenRawTags, ElevenTags}

TagsCreate ==
    \E v \in TagInputs :
        /\ CreateTask(1, MEDIUM, None, v, None)
        /\ Cardinality(DOMAIN tasks') <= MaxStoreTasks

TagsNext == Tick \/ TagsCreate

SpecTags == Init /\ [][TagsNext]_vars

\* The tags each input is to normalize to
ExpectedTags(v) ==
    CASE v = <<>> -> {}
      [] v = FooTags -> {<<"f", "o", "o">>, <<"b", "a", "r">>}
      [] v = BlankTags -> {<<"x">>}
      [] v = TenTags -> {<<c>> : c \in {"a", "b", "c", "d", "e", "f", "g", "h", "i", "j"}}
      [] v = ElevenRawTags -> {<<c>> : c \in {"a", "b", "c", "d", "e", "f", "g", "h", "i", "j"}}
      [] v = ElevenTags ->
            {<<c>> : c \in {"a", "b", "c", "d", "e", "f", "g", "h", "i", "j", "k"}}

TagSet(tags) == {tags[i] : i \in 1..Len(tags)}

\* C15: construction normalizes the tags before it counts them.  It fails
\* with ValidationError exactly when the trimmed, lowercased, non-empty,
\* deduplicated tags are more than 10 (eleven raw tags that are ten after
\* normalization are accepted); otherwise the new task holds each
\* normalized tag once, and normalizing its tags again gives the same set.
C15_TagNormalization ==
    [][\A v \in TagInputs :
          \/ IF Cardinality(ExpectedTags(v)) > 10
             THEN last'.result = ValidationError /\ tasks' = tasks
             ELSE /\ last'.result = OK
                  /\ \E id \in DOMAIN tasks' \ DOMAIN tasks :
                        /\ TagSet(tasks'[id].tags) = ExpectedTags(v)
                        /\ Len(tasks'[id].tags) = Cardinality(ExpectedTags(v))
                        /\ TagSet(normalized_tags(tasks'[id].tags)) = ExpectedTags(v)
          \/ ~CreateTask(1, MEDIUM, None, v, None)]_vars

\* C15 witness: one stored task holds ten tags, another the two tags of
\* ["Foo", " foo ", "BAR"], and a later construction with eleven distinct
\* tags failed.
C15_Witness ==
    /\ \E id \in DOMAIN tasks : Len(tasks[id].tags) = 10
    /\ \E id \in DOMAIN tasks : Len(tasks[id].tags) = 2
    /\ last = Called("create_task", ValidationError)

-----------------------------------------------------------------------------
(* SpecOverdue: tasks with and without a due_date, a clock that runs up to *)
(* and past the due_date, and the tasks completed or cancelled before and  *)
(* after it.                                                               *)

\* the due_date given to create_task
DUE == 1

DueTick ==
    /\ now < MaxDueClock
    /\ now' = now + 1
    /\ UNCHANGED <<tasks, stats, last>>

DueCreate ==
    \E due_date \in {None, Some(DUE)} :
        /\ Cardinality(DOMAIN tasks) < MaxTasks
        /\ CreateTask(1, MEDIUM, due_date, <<>>, None)

DueComplete == \E id \in Ids : CompleteTask(id)

DueCancel ==
    \E id \in Ids : CancelTask(id, None) /\ WithinBounds(MaxReasonTags, MaxCancelled)

DueList == ListTasks(None, None, None, None, TRUE, MaxTasks, 0)

DueNext ==
    \/ DueTick
    \/ DueCreate
    \/ DueComplete
    \/ DueCancel
    \/ DueList

SpecOverdue == Init /\ [][DueNext]_vars

\* The task has a due_date, the due_date is strictly before the clock
\* value, and the status is not completed
PastDue(t, clock) ==
    /\ t.due_date # None
    /\ Val(t.due_date) < clock
    /\ t.status # COMPLETED

\* C16: is_overdue is true exactly of a task that has a due_date strictly
\* before the clock and is not completed; get_statistics counts exactly
\* these tasks in overdue_tasks and list_tasks(overdue_only) returns
\* exactly them.  A task that is not completed is overdue after the step
\* that takes the clock past its due_date, stays overdue through a
\* cancel_task, and is not overdue after the step that completes it.
C16_Overdue ==
    /\ [](/\ \A id \in DOMAIN tasks :
                is_overdue(tasks[id], now) <=> PastDue(tasks[id], now)
          /\ get_statistics.overdue_tasks =
                Cardinality({id \in DOMAIN tasks : PastDue(tasks[id], now)})
          /\ LET r == list_tasks(None, None, None, None, TRUE, Cardinality(DOMAIN tasks), 0)
             IN  {r[i] : i \in 1..Len(r)} =
                     {tasks[id] : id \in {k \in DOMAIN tasks : PastDue(tasks[k], now)}})
    /\ [][\A id \in DOMAIN tasks :
             /\ ( /\ tasks[id].due_date # None
                  /\ Val(tasks[id].due_date) = now
                  /\ tasks[id].status # COMPLETED
                  /\ now' > now )
                    => is_overdue(tasks'[id], now')
             /\ ( is_overdue(tasks[id], now) /\ last'.op = "cancel_task" )
                    => is_overdue(tasks'[id], now')
             /\ ( is_overdue(tasks[id], now)
                  /\ tasks[id].status # COMPLETED /\ tasks'[id].status = COMPLETED )
                    => ~is_overdue(tasks'[id], now')]_vars

\* C16 witness: a task created before its due_date was cancelled after the
\* clock had passed the due_date; it is overdue and counted.
C16_Witness ==
    /\ \E id \in DOMAIN tasks :
          /\ tasks[id].due_date = Some(DUE)
          /\ tasks[id].created_at < DUE
          /\ tasks[id].status = CANCELLED
          /\ tasks[id].updated_at > DUE
          /\ is_overdue(tasks[id], now)
    /\ get_statistics.overdue_tasks = 1
    /\ last = Called("cancel_task", OK)

\* The updates of one constrained field: title, due_date, tags or
\* estimated_hours
ConstrainedUpdates ==
    {u \in FieldUpdates : u[1][1] \in {"title", "due_date", "tags", "estimated_hours"}}

\* The value is outside the field's constraint: a title of length 0 or
\* above 200, a due_date before the clock, more than 10 tags after
\* normalization, estimated_hours outside [0, 1000]
OutsideConstraint(u) ==
    LET field == u[1][1]
        value == u[1][2]
    IN  \/ field = "title" /\ (value = 0 \/ value > 200)
        \/ field = "due_date" /\ value # None /\ Val(value) < now
        \/ field = "tags" /\ value = ElevenTags
        \/ field = "estimated_hours" /\ value # None
              /\ (Val(value) < 0 \/ Val(value) > 1000)

\* C17 as stated: update_task with a title of length 0 or above 200, a
\* past due_date, more than 10 tags or estimated_hours outside [0, 1000]
\* succeeds and stores the given value.
C17_UpdateBypassesValidators ==
    [][\A id \in DOMAIN tasks, u \in ConstrainedUpdates :
          \/ ~OutsideConstraint(u)
          \/ last'.result = OK /\ tasks'[id][u[1][1]] = u[1][2]
          \/ ~UpdateTask(id, u)]_vars

\* C17 amended: update_task assigns a field other than status through the
\* entity's validation of assignments.  With a title of length 0 or above
\* 200, a past due_date, more than 10 normalized tags or estimated_hours
\* outside [0, 1000] as its only field it fails with ValidationError and
\* the stored task is as before; with a value inside the constraint it
\* succeeds, stores the value (the tags normalized) and sets updated_at.
C17_UpdateValidates ==
    [][last'.op = "update_task" =>
       \A id \in DOMAIN tasks, u \in ConstrainedUpdates :
          \/ IF OutsideConstraint(u)
             THEN last'.result = ValidationError /\ tasks' = tasks
             ELSE /\ last'.result = OK
                  /\ IF u[1][1] = "tags"
                     THEN TagSet(tasks'[id].tags) = ExpectedTags(u[1][2])
                     ELSE tasks'[id][u[1][1]] = u[1][2]
                  /\ tasks'[id].updated_at = now
          \/ ~UpdateTask(id, u)]_vars

\* C17 witness: a title of length 200 was stored by update_task, and a
\* later update_task, made when the clock had moved on, ended in
\* ValidationError.
C17_Witness ==
    /\ \E id \in DOMAIN tasks :
          /\ tasks[id].title = 200
          /\ tasks[id].updated_at < now
    /\ last = Called("update_task", ValidationError)

-----------------------------------------------------------------------------
(* Properties of updated_at, of failed calls and of the two transition     *)
(* policies                                                                *)

\* C18 as stated: whenever mark_in_progress, mark_completed, cancel or
\* update_task (called directly or through complete_task or cancel_task)
\* changes any field of a stored task, the task's updated_at afterwards
\* is the clock value of that operation.
C18_UpdatedAtRefreshed ==
    [][\A id \in DOMAIN tasks :
          ( /\ last'.op \in {"mark_in_progress", "mark_completed", "cancel",
                              "update_task", "complete_task", "cancel_task"}
            /\ tasks'[id] # tasks[id] )
              => tasks'[id].updated_at = now]_vars

\* C19: complete_task on a completed or cancelled task, and cancel_task
\* with or without a reason on a completed task, fail with
\* InvalidTransition; total_completed and total_cancelled keep their
\* values and the task's status, tags and updated_at are as before.
C19_FailedCallChangesNothing ==
    [][\A id \in DOMAIN tasks :
          /\ ( last'.op = "complete_task" /\ tasks[id].status \in {COMPLETED, CANCELLED} )
                => \/ /\ last'.result = InvalidTransition
                      /\ stats' = stats
                      /\ tasks'[id].status = tasks[id].status
                      /\ tasks'[id].tags = tasks[id].tags
                      /\ tasks'[id].updated_at = tasks[id].updated_at
                   \/ ~CompleteTask(id)
          /\ ( last'.op = "cancel_task" /\ tasks[id].status = COMPLETED )
                => \A reason \in Reasons :
                      \/ /\ last'.result = InvalidTransition
                         /\ stats' = stats
                         /\ tasks'[id].status = tasks[id].status
                         /\ tasks'[id].tags = tasks[id].tags
                         /\ tasks'[id].updated_at = tasks[id].updated_at
                      \/ ~CancelTask(id, reason)]_vars

\* C19 witness: a task completed earlier and counted once; a cancel_task
\* on it at a later time failed, and neither counter nor task moved.
C19_Witness ==
    /\ \E id \in DOMAIN tasks :
          /\ tasks[id].status = COMPLETED
          /\ tasks[id].updated_at < now
    /\ stats.total_completed = 1
    /\ stats.total_cancelled = 0
    /\ last = Called("cancel_task", InvalidTransition)

\* An entity operation called on task t succeeds and leaves it with status
\* requested
EntityReaches(t, requested) ==
    \/ LET r == mark_in_progress(t, now)
       IN  r.result = OK /\ r.task.status = requested
    \/ LET r == mark_completed(t, now)
       IN  r.result = OK /\ r.task.status = requested
    \/ \E reason \in Reasons :
          LET r == cancel(t, reason, now)
          IN  r.result = OK /\ r.task.status = requested

\* C20: for every stored task and every requested status different from
\* its current one, update_task's status policy accepts the pair exactly
\* when mark_in_progress, mark_completed or cancel succeeds on the task
\* and ends in the requested status.
C20_PoliciesAgree ==
    \A id \in DOMAIN tasks :
        \A requested \in TaskStatus \ {tasks[id].status} :
            _validate_status_transition(tasks[id].status, requested)
                <=> EntityReaches(tasks[id], requested)

\* C20 witness: a cancelled task: the policy rejects cancelled -> completed
\* and mark_completed fails on it, while requested = cancelled is rejected
\* by the policy although cancel succeeds.
C20_Witness ==
    \E id \in DOMAIN tasks :
        /\ tasks[id].status = CANCELLED
        /\ ~_validate_status_transition(CANCELLED, COMPLETED)
        /\ ~EntityReaches(tasks[id], COMPLETED)
        /\ ~_validate_status_transition(CANCELLED, CANCELLED)
        /\ EntityReaches(tasks[id], CANCELLED)

\* C21: in every state reached through create_task, update_task,
\* complete_task and cancel_task, total_completed is at most the number of
\* stored tasks that are completed and total_created is the size of the
\* store; so total_completed is at most total_tasks and completion_rate
\* is not above 100.
C21_CountersWithinStore ==
    /\ stats.total_completed <= Cardinality(WithStatus({COMPLETED}))
    /\ stats.total_created = Cardinality(DOMAIN tasks)
    /\ get_statistics.total_completed <= get_statistics.total_tasks
    /\ ~completion_rate_above(100)

\* C21 witness: a task was completed and counted once, and a second
\* complete_task on it failed and was not counted: completion_rate is 100.
C21_Witness ==
    /\ Cardinality(WithStatus({COMPLETED})) = 1
    /\ stats.total_completed = 1
    /\ completion_rate_above(99)
    /\ last = Called("complete_task", InvalidTransition)

====
